---------------------------- MODULE Spec2Model ----------------------------
(***************************************************************************)
(* Exact arithmetic on linear combinations of quadratic integers (LCoQI),  *)
(* modelled from src/linear_combinations_of_quadratic_integers.py.         *)
(*                                                                         *)
(* A radical factor is a record [tag, n]: tag "Prime" is the plain int n   *)
(* of the source (the factor sqrt(n)), tag "Nested" is the tuple           *)
(* ("+√", n) (the factor sqrt(n + sqrt(n))).  A basis key is a set of      *)
(* factors (the frozenset of the source).  A value is a record             *)
(* [err, coeffs]: err = "ok" and coeffs the frozendict of an LCoQI, or     *)
(* err the name of the exception the call raised.                          *)
(***************************************************************************)
EXTENDS Integers, FiniteSets, Sequences, TLC

VARIABLES
    \* normalize_root(root): its locals and where it stands
    root, x, p, factors, rootkey, rootpc,
    \* the caller's value a and its call a.inverse(): self and the locals of
    \* inverse, where it stands, what it returned or raised, and the caller's
    \* a * a.inverse()
    a, self, numerator, denominator, todo, result, product, invpc,
    \* a session of calls: the two most recent objects, the id of the next
    \* object, the number of calls made, the last call with its outcome, and
    \* what the last == answered
    cur, prev, nextId, ops, call, eq,
    \* an algebraic law evaluated on the values lawA, lawB, lawC and the
    \* exponents powM, powN: its two sides, and where the evaluation stands
    lawA, lawB, lawC, powM, powN, lawLeft, lawRight, lawpc

rootVars == <<root, x, p, factors, rootkey, rootpc>>

invVars == <<a, self, numerator, denominator, todo, result, product, invpc>>

sesVars == <<cur, prev, nextId, ops, call, eq>>

lawVars == <<lawA, lawB, lawC, powM, powN, lawLeft, lawRight, lawpc>>

vars == <<rootVars, invVars, sesVars, lawVars>>

(***************************************************************************)
(* Bounds of the checked instances.                                        *)
(***************************************************************************)
MaxRoot == 50

MaxNested == 3

MaxCoef == 1

MaxPow == 2

\* the raw mappings given to the constructor: plain and nested radicands in
\* 1..MaxRadicand, coefficients in -MaxCoef..MaxCoef (zero included), at
\* most MaxEntries entries
MaxRadicand == 4

MaxEntries == 1

\* calls per session
MaxOps == 2

\* Python integers are unbounded; the model follows a computation while its
\* coefficients have numerators and denominators of at most MaxInt
MaxInt == 30000

(***************************************************************************)
(* mynumbers.Rational: exact rationals, kept in lowest terms with a        *)
(* positive denominator.  An operation on a coefficient beyond MaxInt      *)
(* yields ROut, the mark of a computation the model does not follow.       *)
(***************************************************************************)
Abs(i) == IF i < 0 THEN -i ELSE i

RECURSIVE GCD(_, _)
GCD(i, j) == IF j = 0 THEN i ELSE GCD(j, i % j)

Reduce(n, d, g) ==
    IF d < 0
    THEN [num |-> (-n) \div g, den |-> (-d) \div g]
    ELSE [num |-> n \div g, den |-> d \div g]

Rational(n, d) == Reduce(n, d, GCD(Abs(n), Abs(d)))

RInt(i) == [num |-> i, den |-> 1]

RZero == RInt(0)

ROne == RInt(1)

ROut == [num |-> 0, den |-> 0]

InRange(q) == q.den # 0 /\ q.num <= MaxInt /\ -q.num <= MaxInt /\ q.den <= MaxInt

RNeg(q) == [num |-> -q.num, den |-> q.den]

RAddOver(q, r, g) ==
    Rational(q.num * (r.den \div g) + r.num * (q.den \div g),
             q.den * (r.den \div g))

RAdd(q, r) ==
    IF ~(InRange(q) /\ InRange(r)) THEN ROut
    ELSE RAddOver(q, r, GCD(q.den, r.den))

RSub(q, r) == RAdd(q, RNeg(r))

RMulOver(q, r, g1, g2) ==
    Rational((q.num \div g1) * (r.num \div g2),
             (q.den \div g2) * (r.den \div g1))

RMul(q, r) ==
    IF ~(InRange(q) /\ InRange(r)) THEN ROut
    ELSE RMulOver(q, r, GCD(Abs(q.num), r.den), GCD(Abs(r.num), q.den))

\* Rational(1) / q for q # 0
RRecip(q) == Rational(q.den, q.num)

(***************************************************************************)
(* Radical factors, basis keys, values.                                    *)
(***************************************************************************)
Prime(n) == [tag |-> "Prime", n |-> n]

Nested(n) == [tag |-> "Nested", n |-> n]

EmptyKey == {}

EmptyCoeffs == [k \in {} |-> RZero]

Ok(f) == [err |-> "ok", coeffs |-> f]

Raise(e) == [err |-> e, coeffs |-> EmptyCoeffs]

IsOk(v) == v.err = "ok"

\* a result with a coefficient beyond MaxInt is not followed
Checked(f) ==
    IF \E k \in DOMAIN f : f[k] = ROut THEN Raise("OutOfRange") ELSE Ok(f)

Followed(v) == v.err # "OutOfRange"

Term(key, coef) == Ok([k \in {key} |-> coef])

Zero == Ok(EmptyCoeffs)

One == Term(EmptyKey, ROne)

(***************************************************************************)
(* normalize_root on a plain integer: trial division by every d in         *)
(* 2..isqrt(root).                                                         *)
(***************************************************************************)
Isqrt(n) == CHOOSE r \in 0..n : r * r <= n /\ (r + 1) * (r + 1) > n

\* TrialDivide without the test of line 20
TrialDivideOnce(rem, d, fs) ==
    IF rem % d = 0
    THEN [x |-> rem \div d, factors |-> Append(fs, d), raised |-> FALSE]
    ELSE [x |-> rem, factors |-> fs, raised |-> FALSE]

\* one iteration of the for loop at the divisor d, from the remainder rem
\* and the list fs of the factors recorded so far
TrialDivide(rem, d, fs) ==
    IF rem % d = 0
    THEN [x |-> rem \div d, factors |-> Append(fs, d),
          raised |-> (rem \div d) % d = 0]
    ELSE [x |-> rem, factors |-> fs, raised |-> FALSE]

\* after the loop: the remainder, when not 1, is recorded as a factor, and
\* the list becomes a frozenset
RootResultOf(all) == {all[i] : i \in 1..Len(all)}

RootResult(rem, fs) == RootResultOf(IF rem # 1 THEN Append(fs, rem) ELSE fs)

RECURSIVE RootLoop(_, _, _, _)
RECURSIVE RootNext(_, _, _)

RootNext(s, d, last) ==
    IF s.raised
    THEN [err |-> "ValueError", factors |-> {}]
    ELSE RootLoop(s.x, d + 1, last, s.factors)

RootLoop(rem, d, last, fs) ==
    IF d > last
    THEN [err |-> "ok", factors |-> RootResult(rem, fs)]
    ELSE RootNext(TrialDivide(rem, d, fs), d, last)

RootKey(r) == [err |-> r.err, key |-> {Prime(d) : d \in r.factors}]

\* normalize_root(n) for a plain integer n >= 1: the exception, or the
\* basis key of sqrt(n)
NormalizeRoot(n) == RootKey(RootLoop(n, 2, Isqrt(n), <<>>))

(***************************************************************************)
(* LCoQI.__add__ / __sub__: merge the two mappings, then keep the entries  *)
(* whose coefficient is truthy (nonzero).                                  *)
(***************************************************************************)
Get(f, k) == IF k \in DOMAIN f THEN f[k] ELSE RZero

Prune(f) == [k \in {j \in DOMAIN f : f[j] # RZero} |-> f[k]]

Add(u, v) ==
    Checked(Prune([k \in DOMAIN u.coeffs \cup DOMAIN v.coeffs |->
                      IF k \in DOMAIN v.coeffs
                      THEN RAdd(Get(u.coeffs, k), v.coeffs[k])
                      ELSE u.coeffs[k]]))

Sub(u, v) ==
    Checked(Prune([k \in DOMAIN u.coeffs \cup DOMAIN v.coeffs |->
                      IF k \in DOMAIN v.coeffs
                      THEN RSub(Get(u.coeffs, k), v.coeffs[k])
                      ELSE u.coeffs[k]]))

(***************************************************************************)
(* LCoQI.__mul__                                                           *)
(***************************************************************************)
SymmetricDifference(k1, k2) == (k1 \ k2) \cup (k2 \ k1)

RECURSIVE ProductOf(_)
ProductOf(S) ==
    IF S = {} THEN 1
    ELSE (CHOOSE r \in S : TRUE).n * ProductOf(S \ {CHOOSE r \in S : TRUE})

\* LCoQI({1: x, x: 1}) at line 111, for x = n: the dict literal holds one
\* entry when n = 1, and the constructor normalizes both keys
NestedSquareOf(n, nr) ==
    IF nr.err # "ok"
    THEN Raise(nr.err)
    ELSE Ok([k \in {EmptyKey, nr.key} |->
                IF k = EmptyKey THEN RInt(n) ELSE ROne])

NestedSquare(n) == IF n = 1 THEN One ELSE NestedSquareOf(n, NormalizeRoot(n))

RECURSIVE Mul(_, _)
RECURSIVE MulFactors(_, _)
RECURSIVE MulExpand(_, _, _, _)

\* lines 113-114: for factor in additional_factors: result *= factor
MulFactorsAt(acc, ns, n) == MulFactors(Mul(acc, NestedSquare(n)), ns \ {n})

MulFactors(acc, ns) ==
    IF ns = {} \/ ~IsOk(acc) THEN acc
    ELSE MulFactorsAt(acc, ns, CHOOSE n \in ns : TRUE)

\* lines 106-112: the factors the two keys share; a shared nested factor
\* builds its square at once (and raises there), then result is one term
MulTerm(key, coef, nested) ==
    IF \E n \in nested : ~IsOk(NestedSquare(n))
    THEN Raise("ValueError")
    ELSE IF coef = ROut THEN Raise("OutOfRange")
    ELSE MulFactors(Term(key, coef), nested)

MulCommon(key, coef, common) ==
    MulTerm(key,
            RMul(coef, RInt(ProductOf({r \in common : r.tag = "Prime"}))),
            {r.n : r \in {s \in common : s.tag = "Nested"}})

\* lines 102-115: one term by one term
MulSingle(root1, coef1, root2, coef2) ==
    MulCommon(SymmetricDifference(root1, root2), RMul(coef1, coef2),
              root1 \cap root2)

\* line 100: result += product, when the product did not raise
AddProduct(acc, t) == IF ~IsOk(t) THEN t ELSE Add(acc, t)

\* lines 97-101: the double loop over the pairs of terms still to come
MulExpandAt(u, v, pairs, acc, pr) ==
    MulExpand(u, v, pairs \ {pr},
              AddProduct(acc, MulSingle(pr[1], u.coeffs[pr[1]],
                                        pr[2], v.coeffs[pr[2]])))

MulExpand(u, v, pairs, acc) ==
    IF pairs = {} \/ ~IsOk(acc) THEN acc
    ELSE MulExpandAt(u, v, pairs, acc, CHOOSE pr \in pairs : TRUE)

MulOne(f, g, root1, root2) == MulSingle(root1, f[root1], root2, g[root2])

Mul(u, v) ==
    IF ~(Cardinality(DOMAIN u.coeffs) = 1 /\ Cardinality(DOMAIN v.coeffs) = 1)
    THEN MulExpand(u, v, (DOMAIN u.coeffs) \X (DOMAIN v.coeffs), Zero)
    ELSE MulOne(u.coeffs, v.coeffs, CHOOSE k \in DOMAIN u.coeffs : TRUE,
                CHOOSE k \in DOMAIN v.coeffs : TRUE)

(***************************************************************************)
(* LCoQI.inverse, __truediv__, __pow__.  The for loop of inverse iterates  *)
(* a frozenset, whose order the interpreter chooses: every order is an     *)
(* outcome, so these operators yield the set of the possible results.      *)
(***************************************************************************)
\* reduce(lambda x, y: x | y, denominator.coeffs), for a non-empty mapping
Roots(f) == UNION (DOMAIN f)

\* Complement negating every coefficient, whatever its key
ComplementAll(d, r) == Ok([k \in DOMAIN d.coeffs |-> RNeg(d.coeffs[k])])

\* lines 63-68
Complement(d, r) ==
    Ok([k \in DOMAIN d.coeffs |->
           IF r \in k THEN RNeg(d.coeffs[k]) ELSE d.coeffs[k]])

IsRational(f) == Cardinality(DOMAIN f) = 1 /\ EmptyKey \in DOMAIN f

\* lines 59-60: the inverse of a single rational term
RationalInverse(f) ==
    IF f[EmptyKey] = RZero
    THEN Raise("ZeroDivisionError")
    ELSE Term(EmptyKey, RRecip(f[EmptyKey]))

\* lines 69-70: denominator *= complement, then numerator *= complement
ConjugateResult(n2, d2) ==
    [err |-> n2.err, numerator |-> n2, denominator |-> d2]

\* ConjugateNumerator leaving the numerator as it was
ConjugateNumeratorStale(n, d2, c) ==
    [err |-> d2.err, numerator |-> n, denominator |-> d2]

ConjugateNumerator(n, d2, c) ==
    IF ~IsOk(d2)
    THEN [err |-> d2.err, numerator |-> n, denominator |-> d2]
    ELSE ConjugateResult(Mul(n, c), d2)

ConjugateBy(n, d, c) == ConjugateNumerator(n, Mul(d, c), c)

\* one iteration of the for loop at the root r
Conjugate(n, d, r) == ConjugateBy(n, d, Complement(d, r))

RECURSIVE InverseOutcomes(_)
RECURSIVE LoopOutcomes(_, _, _)

MulInverse(u, r) == IF IsOk(r) THEN Mul(u, r) ELSE r

\* u / v: self * other.inverse()
DivOutcomes(u, v) == {MulInverse(u, r) : r \in InverseOutcomes(v)}

LoopNext(s, rest) ==
    IF s.err # "ok" THEN {Raise(s.err)}
    ELSE LoopOutcomes(s.numerator, s.denominator, rest)

\* the rest of the for loop, with the roots in rest still to come, and the
\* return of numerator / denominator after it
LoopOutcomes(n, d, rest) ==
    IF rest = {} THEN DivOutcomes(n, d)
    ELSE UNION {LoopNext(Conjugate(n, d, r), rest \ {r}) : r \in rest}

InverseOutcomes(v) ==
    IF IsRational(v.coeffs) THEN {RationalInverse(v.coeffs)}
    ELSE IF DOMAIN v.coeffs = {} THEN {Raise("TypeError")}
    ELSE LoopOutcomes(One, v, Roots(v.coeffs))

RECURSIVE PowLoop(_, _, _)

PowNext(r, f, n) == IF ~IsOk(f) THEN f ELSE PowLoop(r, f, n)

PowStep(r, factor, n) ==
    IF ~IsOk(r) THEN r ELSE PowNext(r, Mul(factor, factor), n)

\* lines 123-127
PowLoop(acc, factor, n) ==
    IF n = 0 THEN acc
    ELSE PowStep(IF n % 2 = 1 THEN Mul(acc, factor) ELSE acc, factor,
                 n \div 2)

PowSign(r, power) ==
    IF ~IsOk(r) \/ power >= 0 THEN {r} ELSE InverseOutcomes(r)

PowOutcomes(v, power) == PowSign(PowLoop(One, v, Abs(power)), power)

(***************************************************************************)
(* normalize_root(root), one loop iteration at a time.                     *)
(***************************************************************************)
RootIdle ==
    /\ root = 0 /\ x = 0 /\ p = 0 /\ factors = <<>> /\ rootkey = {}
    /\ rootpc = "idle"

RootInit ==
    /\ root \in 1..MaxRoot
    /\ x = root
    /\ p = 2
    /\ factors = <<>>
    /\ rootkey = {}
    /\ rootpc = "loop"

\* for p in range(2, math.isqrt(root) + 1): the body at p
RootIterate ==
    /\ rootpc = "loop"
    /\ p <= Isqrt(root)
    /\ LET s == TrialDivide(x, p, factors)
       IN  /\ x' = s.x
           /\ factors' = s.factors
           /\ p' = IF s.raised THEN p ELSE p + 1
           /\ rootpc' = IF s.raised THEN "raised" ELSE "loop"
    /\ UNCHANGED <<root, rootkey, invVars, sesVars, lawVars>>

\* lines 22-24 once the range is exhausted; rootkey is the returned set
RootReturn ==
    /\ rootpc = "loop"
    /\ p > Isqrt(root)
    /\ rootkey' = RootResult(x, factors)
    /\ rootpc' = "returned"
    /\ UNCHANGED <<root, x, p, factors, invVars, sesVars, lawVars>>

(***************************************************************************)
(* The values inverse() is run on: the zero value, and the sums of one or  *)
(* two terms whose basis keys hold at most two factors among sqrt(2),      *)
(* sqrt(3) and the nested radicals of 1..MaxNested, one coefficient a      *)
(* nonzero integer of magnitude at most MaxCoef, the other 1 or -1.        *)
(***************************************************************************)
Factors == {Prime(2), Prime(3)} \cup {Nested(n) : n \in 1..MaxNested}

Keys == {EmptyKey} \cup {{f, g} : f, g \in Factors}

Coefs == {RInt(c) : c \in (-MaxCoef..MaxCoef) \ {0}}

Units == {ROne, RNeg(ROne)}

Values ==
    {Zero} \cup
    {Ok([k \in {k1, k2} |-> IF k = k1 THEN c1 ELSE c2]) :
        k1 \in Keys, k2 \in Keys, c1 \in Coefs, c2 \in Units}

(***************************************************************************)
(* self.inverse() one loop iteration at a time, followed by the caller's   *)
(* self * self.inverse().                                                  *)
(***************************************************************************)
InvIdle ==
    /\ a = Zero /\ self = Zero /\ numerator = Zero /\ denominator = Zero
    /\ todo = {}
    /\ result = Zero /\ product = Zero /\ invpc = "idle"

InvInit ==
    /\ a \in Values
    /\ self = a
    /\ numerator = Zero
    /\ denominator = Zero
    /\ todo = {}
    /\ result = Zero
    /\ product = Zero
    /\ invpc = "call"

\* lines 59-62: the rational case returns (or raises) at once; otherwise the
\* roots to iterate are fixed here, from self, before the first iteration
InverseEnter ==
    /\ invpc = "call"
    /\ IF IsRational(self.coeffs)
       THEN /\ result' = RationalInverse(self.coeffs)
            /\ invpc' = IF IsOk(RationalInverse(self.coeffs))
                         THEN "returned" ELSE "raised"
            /\ UNCHANGED <<numerator, denominator, todo>>
       ELSE IF DOMAIN self.coeffs = {}
       THEN /\ result' = Raise("TypeError")
            /\ invpc' = "raised"
            /\ UNCHANGED <<numerator, denominator, todo>>
       ELSE /\ numerator' = One
            /\ denominator' = self
            /\ todo' = Roots(self.coeffs)
            /\ invpc' = "loop"
            /\ UNCHANGED result
    /\ UNCHANGED <<a, self, product, rootVars, sesVars, lawVars>>

\* the outcome s of one iteration: the loop goes on, or the call raises
InverseIterated(s) ==
    /\ s.err # "OutOfRange"
    /\ IF s.err = "ok"
       THEN /\ numerator' = s.numerator
            /\ denominator' = s.denominator
            /\ UNCHANGED <<result, invpc>>
       ELSE /\ result' = Raise(s.err)
            /\ invpc' = "raised"
            /\ UNCHANGED <<numerator, denominator>>

\* lines 62-70: one iteration, at any root not yet iterated
InverseIterate ==
    /\ invpc = "loop"
    /\ \E r \in todo :
         /\ todo' = todo \ {r}
         /\ InverseIterated(Conjugate(numerator, denominator, r))
    /\ UNCHANGED <<a, self, product, rootVars, sesVars, lawVars>>

\* line 71: return numerator / denominator
InverseReturn ==
    /\ invpc = "loop"
    /\ todo = {}
    /\ \E r \in DivOutcomes(numerator, denominator) :
         /\ Followed(r)
         /\ result' = r
         /\ invpc' = IF IsOk(r) THEN "returned" ELSE "raised"
    /\ UNCHANGED <<a, self, numerator, denominator, todo, product, rootVars,
                   sesVars, lawVars>>

\* the caller multiplies a by the inverse it got
InverseCheck ==
    /\ invpc = "returned"
    /\ product' \in {m \in {Mul(a, result)} : Followed(m)}
    /\ invpc' = "checked"
    /\ UNCHANGED <<a, self, numerator, denominator, todo, result, rootVars,
                   sesVars, lawVars>>

(***************************************************************************)
(* LCoQI.__init__ on a raw mapping: a dict, here the sequence of its       *)
(* entries <<radical specification, coefficient>> in insertion order.  A   *)
(* specification is a plain int, a tuple ("+√", n), or a set of factors.   *)
(***************************************************************************)
RawInt(n) == [kind |-> "int", n |-> n, key |-> {}]

RawNested(n) == [kind |-> "nested", n |-> n, key |-> {}]

RawSet(key) == [kind |-> "set", n |-> 0, key |-> key]

\* normalize_root(r), lines 11-14 for a set or a tuple, else the factoring
NormalizeSpec(r) ==
    IF r.kind = "set" THEN [err |-> "ok", key |-> r.key]
    ELSE IF r.kind = "nested" THEN [err |-> "ok", key |-> {Nested(r.n)}]
    ELSE NormalizeRoot(r.n)

RECURSIVE Comprehend(_, _, _)

\* one entry of the dict comprehension of line 55: a key met again takes
\* the later coefficient, and no coefficient is looked at
ComprehendAt(raw, i, f, nr) ==
    IF nr.err # "ok" THEN Raise(nr.err)
    ELSE Comprehend(raw, i + 1,
                    [k \in DOMAIN f \cup {nr.key} |->
                        IF k = nr.key THEN RInt(raw[i][2]) ELSE f[k]])

Comprehend(raw, i, f) ==
    IF i > Len(raw) THEN Ok(f)
    ELSE ComprehendAt(raw, i, f, NormalizeSpec(raw[i][1]))

\* LCoQI(raw)
LCoQI(raw) == Comprehend(raw, 1, EmptyCoeffs)

(***************************************************************************)
(* A session: objects are built and combined by the public operations.     *)
(* cur and prev are the two most recent objects; every call that returns   *)
(* makes a new object, which becomes cur.                                  *)
(***************************************************************************)
RawRoots ==
    {RawInt(n) : n \in 1..MaxRadicand} \cup
    {RawNested(n) : n \in 1..MaxRadicand} \cup
    {RawSet({Prime(2)})}

RawCoefs == -MaxCoef..MaxCoef

Raws ==
    UNION {{raw \in [1..len -> RawRoots \X RawCoefs] :
               \A i, j \in 1..len : i # j => raw[i][1] # raw[j][1]} :
           len \in 0..MaxEntries}

Constructible == {v \in {LCoQI(raw) : raw \in Raws} : IsOk(v)}

Obj(id, v) == [id |-> id, val |-> v]

Call(op, args, power, out) ==
    [op |-> op, args |-> args, power |-> power, out |-> out]

\* the class defines no __eq__: == is the default comparison of objects,
\* true for an object and itself only
Eq(o1, o2) == o1.id = o2.id

SesIdle ==
    /\ cur = Obj(0, Zero) /\ prev = Obj(0, Zero) /\ nextId = 0 /\ ops = 0
    /\ call = Call("none", <<>>, 0, Zero) /\ eq = "none"

\* x = LCoQI(raw); y = x
SesInit ==
    /\ cur \in {Obj(1, v) : v \in Constructible}
    /\ prev = cur
    /\ nextId = 2
    /\ ops = 0
    /\ call = Call("new", <<>>, 0, cur.val)
    /\ eq = "none"

\* the call c was made: a returned value is a new object, an exception
\* leaves the objects as they were
Called(c) ==
    /\ ops < MaxOps
    /\ Followed(c.out)
    /\ ops' = ops + 1
    /\ call' = c
    /\ eq' = "none"
    /\ IF IsOk(c.out)
       THEN cur' = Obj(nextId, c.out) /\ prev' = cur /\ nextId' = nextId + 1
       ELSE UNCHANGED <<cur, prev, nextId>>
    /\ UNCHANGED <<rootVars, invVars, lawVars>>

CallNew ==
    /\ ops < MaxOps
    /\ \E raw \in Raws : Called(Call("new", <<>>, 0, LCoQI(raw)))

CallAdd ==
    \E l, r \in {cur, prev} :
        Called(Call("add", <<l.val, r.val>>, 0, Add(l.val, r.val)))

CallSub ==
    \E l, r \in {cur, prev} :
        Called(Call("sub", <<l.val, r.val>>, 0, Sub(l.val, r.val)))

CallMul ==
    \E l, r \in {cur, prev} :
        Called(Call("mul", <<l.val, r.val>>, 0, Mul(l.val, r.val)))

CallDiv ==
    \E l, r \in {cur, prev} : \E out \in DivOutcomes(l.val, r.val) :
        Called(Call("truediv", <<l.val, r.val>>, 0, out))

CallInverse ==
    \E out \in InverseOutcomes(cur.val) :
        Called(Call("inverse", <<cur.val>>, 0, out))

CallPow ==
    \E power \in -MaxPow..MaxPow : \E out \in PowOutcomes(cur.val, power) :
        Called(Call("pow", <<cur.val>>, power, out))

\* cur == prev
CallEq ==
    /\ ops < MaxOps
    /\ ops' = ops + 1
    /\ eq' = IF Eq(cur, prev) THEN "True" ELSE "False"
    /\ call' = Call("eq", <<cur.val, prev.val>>, 0, Zero)
    /\ UNCHANGED <<cur, prev, nextId, rootVars, invVars, lawVars>>

(***************************************************************************)
(* The two sides of an algebraic law on given values, each evaluated on    *)
(* its own: the outcome of a side is its value or the exception it raised. *)
(***************************************************************************)
LawKeys == {EmptyKey, {Prime(2)}} \cup {{Nested(n)} : n \in 1..MaxRadicand}

LawTerms == {Term(k, c) : k \in LawKeys, c \in Coefs}

LawIdle ==
    /\ lawA = Zero /\ lawB = Zero /\ lawC = Zero /\ powM = 0 /\ powN = 0
    /\ lawLeft = Zero /\ lawRight = Zero /\ lawpc = "idle"

RingInit ==
    /\ lawA \in LawTerms \cup {Zero}
    /\ lawB \in LawTerms \cup {Zero}
    /\ lawC \in LawTerms \cup {Zero}
    /\ powM = 0 /\ powN = 0
    /\ lawLeft = Zero /\ lawRight = Zero /\ lawpc = "start"

PowInit ==
    /\ lawA \in LawTerms \cup ({Add(One, t) : t \in LawTerms} \ {Zero})
    /\ lawB = Zero /\ lawC = Zero
    /\ powM \in -MaxPow..MaxPow
    /\ powN \in -MaxPow..MaxPow
    /\ lawLeft = Zero /\ lawRight = Zero /\ lawpc = "start"

\* u + v and u * v of two outcomes: the first exception met is the outcome
AddBoth(u, v) == IF ~IsOk(u) THEN u ELSE IF ~IsOk(v) THEN v ELSE Add(u, v)

MulBoth(u, v) == IF ~IsOk(u) THEN u ELSE IF ~IsOk(v) THEN v ELSE Mul(u, v)

LawStep(to, l, r) ==
    /\ Followed(l) /\ Followed(r)
    /\ lawLeft' = l
    /\ lawRight' = r
    /\ lawpc' = to
    /\ UNCHANGED <<lawA, lawB, lawC, powM, powN, rootVars, invVars, sesVars>>

\* a * (b + c)
DistributeLeft ==
    /\ lawpc = "start"
    /\ LawStep("left", MulBoth(lawA, Add(lawB, lawC)), lawRight)

\* a * b + a * c
DistributeRight ==
    /\ lawpc = "left"
    /\ LawStep("done", lawLeft, AddBoth(Mul(lawA, lawB), Mul(lawA, lawC)))

\* a ** (m + n)
PowLeft ==
    /\ lawpc = "start"
    /\ \E l \in PowOutcomes(lawA, powM + powN) : LawStep("left", l, lawRight)

\* a ** m * a ** n
PowRight ==
    /\ lawpc = "left"
    /\ \E l \in PowOutcomes(lawA, powM) : \E r \in PowOutcomes(lawA, powN) :
           LawStep("done", lawLeft, MulBoth(l, r))

(***************************************************************************)
(* Specifications.                                                         *)
(***************************************************************************)
InitRoot == RootInit /\ InvIdle /\ SesIdle /\ LawIdle

SpecRoot ==
    /\ InitRoot
    /\ [][RootIterate \/ RootReturn]_vars

InitInverse == InvInit /\ RootIdle /\ SesIdle /\ LawIdle

SpecInverse ==
    /\ InitInverse
    /\ [][InverseEnter \/ InverseIterate \/ InverseReturn \/ InverseCheck]_vars

Next ==
    \/ CallNew \/ CallAdd \/ CallSub \/ CallMul \/ CallDiv \/ CallInverse
    \/ CallPow \/ CallEq

Init == SesInit /\ RootIdle /\ InvIdle /\ LawIdle

Spec ==
    /\ Init
    /\ [][Next]_vars

InitRing == RingInit /\ RootIdle /\ InvIdle /\ SesIdle

SpecRing ==
    /\ InitRing
    /\ [][DistributeLeft \/ DistributeRight]_vars

InitPow == PowInit /\ RootIdle /\ InvIdle /\ SesIdle

SpecPow ==
    /\ InitPow
    /\ [][PowLeft \/ PowRight]_vars


(***************************************************************************)
(* Claims about normalize_root (SpecRoot).                                 *)
(***************************************************************************)
SquareFree(n) == \A d \in 2..n : n % (d * d) # 0

IsPrime(n) == n > 1 /\ \A d \in 2..(n - 1) : n % d # 0

PrimeDivisors(n) == {d \in 2..n : IsPrime(d) /\ n % d = 0}

\* C4: normalize_root(root) raises exactly when root is not square-free, and
\* for a square-free root it returns exactly the set of the primes dividing
\* root (the empty set for 1).
C4_NormalizeRoot ==
    /\ rootpc = "raised" => ~SquareFree(root)
    /\ rootpc = "returned" => SquareFree(root) /\ rootkey = PrimeDivisors(root)
    /\ rootpc = "loop" => ENABLED (RootIterate \/ RootReturn)

\* a square-free root with three prime factors, the last one the remainder
\* left after the loop
C4_Witness == rootpc = "returned" /\ x > 1 /\ Cardinality(rootkey) = 3

(***************************************************************************)
(* Claims about inverse() (SpecInverse).                                   *)
(***************************************************************************)
PrimeOnly(v) == \A f \in Roots(v.coeffs) : f.tag = "Prime"

LoopDone == invpc = "loop" /\ todo = {}

\* C1: for every nonzero value a, a.inverse() returns and a * a.inverse()
\* is the rational unit.
C1_InverseLaw ==
    DOMAIN a.coeffs # {} =>
        /\ invpc # "raised"
        /\ invpc = "checked" => product = One

\* C2: inverse() of the zero value raises a division-by-zero error.
C2_ZeroRaisesDivisionByZero ==
    (DOMAIN a.coeffs = {} /\ invpc # "call") =>
        invpc = "raised" /\ result.err = "ZeroDivisionError"

\* C9 as stated: once the loop has run for every factor of self, the running
\* denominator is a single rational term.
C9_DenominatorRational == LoopDone => IsRational(denominator.coeffs)

\* C9 amended: the same, for a self whose basis keys hold Prime factors only.
C9_PrimeDenominatorRational ==
    (LoopDone /\ PrimeOnly(self)) => IsRational(denominator.coeffs)

C9_Witness ==
    /\ LoopDone
    /\ PrimeOnly(self)
    /\ Cardinality(Roots(self.coeffs)) = 2
    /\ Cardinality(DOMAIN self.coeffs) = 2

NumeratorTimesSelf == Mul(numerator, self)

\* C10: before the first iteration and after every iteration of the loop,
\* numerator * self has the coefficient mapping of the running denominator,
\* and self is still the value a the caller passed.
C10_LoopInvariant ==
    /\ self = a
    /\ invpc = "loop" =>
          \/ ~Followed(NumeratorTimesSelf)
          \/ /\ IsOk(NumeratorTimesSelf)
             /\ NumeratorTimesSelf.coeffs = denominator.coeffs

C10_Witness ==
    /\ LoopDone
    /\ \E f \in Roots(self.coeffs) : f.tag = "Nested"
    /\ Cardinality(Roots(self.coeffs)) >= 3
    /\ IsOk(NumeratorTimesSelf)
    /\ ~IsRational(denominator.coeffs)

(***************************************************************************)
(* Claims about sessions (Spec).                                           *)
(***************************************************************************)
\* C3: no object of a session stores an entry whose coefficient is zero.
C3_NoZeroCoefficient ==
    \A o \in {cur, prev} : \A k \in DOMAIN o.val.coeffs : o.val.coeffs[k] # RZero

\* the largest s whose square divides n, and the value s * sqrt(n / s^2)
SquarePart(n) == CHOOSE s \in 1..n : n % (s * s) = 0 /\ \A t \in (s + 1)..n : n % (t * t) # 0

SqrtOf(n, s) == Term({Prime(d) : d \in PrimeDivisors(n \div (s * s))}, RInt(s))

\* the value representing n + sqrt(n)
NestedSquareValue(n) == Add(Term(EmptyKey, RInt(n)), SqrtOf(n, SquarePart(n)))

\* C5: v * v, for v the single term of coefficient 1 on {Nested(n)},
\* returns the value representing n + sqrt(n).
C5_NestedSquaring ==
    \A n \in 1..MaxRadicand :
        (/\ call.op = "mul"
         /\ call.args = <<Term({Nested(n)}, ROne), Term({Nested(n)}, ROne)>>)
        => call.out = NestedSquareValue(n)

\* C8: cur == prev, for two objects made separately, answers True exactly
\* when their coefficient mappings are equal.
C8_StructuralEquality ==
    (eq # "none" /\ cur.id # prev.id) =>
        (eq = "True" <=> cur.val.coeffs = prev.val.coeffs)

(***************************************************************************)
(* Claims about the ring laws (SpecRing) and the power law (SpecPow).      *)
(***************************************************************************)
\* the two sides of the law have the same outcome: both raise, or both
\* return the same coefficient mapping
SidesAgree ==
    /\ IsOk(lawLeft) <=> IsOk(lawRight)
    /\ IsOk(lawLeft) => lawLeft.coeffs = lawRight.coeffs

\* C6: a * (b + c) and a * b + a * c have the same coefficient mapping.
C6_Distributivity == lawpc = "done" => SidesAgree

\* C7: for a nonzero a, a ** (m + n) and a ** m * a ** n have the same
\* coefficient mapping.
C7_PowerLaw == (lawpc = "done" /\ DOMAIN lawA.coeffs # {}) => SidesAgree

=============================================================================
